---- MODULE Spec2Model ----
(***************************************************************************)
(* A model of mynt's generation pipeline (src/mynt/core.py, class Mynt):   *)
(* URL resolution (_get_post_url, _get_tag_url, _get_path), the indexing   *)
(* pass (_parse), the render pass (_render) and the materialisation of the *)
(* destination (generate).                                                 *)
(*                                                                         *)
(* Text is modelled as a sequence of one-character strings, so that        *)
(* str.replace, str.split, str.lower and strftime are computed character   *)
(* by character as the library computes them.                              *)
(***************************************************************************)
EXTENDS Integers, Sequences, FiniteSets, TLC

VARIABLES
    posts_url,      \* config['posts_url'] of the process under study
    tags_url,       \* config['tags_url']
    post_calls,     \* log of the _get_post_url calls made: [date, slug, order, url]
    tag_calls,      \* log of the _get_tag_url calls made: [name, url]
    posts,          \* Mynt.posts: the class attribute every instance appends to
    tags,           \* Mynt.tags: the class-level Tags container, in insertion order
    pages,          \* Mynt.pages: the class attribute every instance appends to
    archives,       \* self.archives of the current instance
    opts,           \* self.opts of the current instance
    dest,           \* the destination tree on disk: [exists, files]
    pc,             \* position of the current run
    run,            \* number of Mynt instances created so far in this process
    fault,          \* the exception a collaborator raised in the current run
    error,          \* the exception that left the current run
    dest0           \* the destination tree as the current run found it

url_vars == <<posts_url, tags_url, post_calls, tag_calls>>
run_vars == <<posts, tags, pages, archives, opts, dest, pc, run, fault, error, dest0>>
vars == <<url_vars, run_vars>>

----------------------------------------------------------------------------
(* Text helpers *)

DigitChars == <<"0", "1", "2", "3", "4", "5", "6", "7", "8", "9">>

RECURSIVE Str(_)
\* str(n) for n >= 0: decimal digits, no padding
Str(n) == IF n < 10 THEN <<DigitChars[n + 1]>>
          ELSE Str(n \div 10) \o <<DigitChars[(n % 10) + 1]>>

RECURSIVE Pad(_, _)
\* zero-padded decimal of width w, as strftime's %Y / %m / %d print it
Pad(n, w) == IF Len(Str(n)) >= w THEN Str(n) ELSE
             LET RECURSIVE Zeros(_)
                 Zeros(k) == IF k = 0 THEN <<>> ELSE <<"0">> \o Zeros(k - 1)
             IN Zeros(w - Len(Str(n))) \o Str(n)

RECURSIVE Replace(_, _, _)
\* unicode.replace(old, new): leftmost, non-overlapping occurrences
Replace(s, old, new) ==
    IF Len(s) < Len(old) THEN s
    ELSE IF SubSeq(s, 1, Len(old)) = old
         THEN new \o Replace(SubSeq(s, Len(old) + 1, Len(s)), old, new)
         ELSE <<s[1]>> \o Replace(Tail(s), old, new)

EndsWith(s, c) == Len(s) > 0 /\ s[Len(s)] = c

RECURSIVE Split(_, _)
\* unicode.split(sep) for a one-character separator: keeps empty pieces
Split(s, sep) ==
    IF \A i \in 1..Len(s) : s[i] # sep THEN <<s>>
    ELSE LET k == CHOOSE i \in 1..Len(s) :
                      s[i] = sep /\ \A j \in 1..(i - 1) : s[j] # sep
         IN <<SubSeq(s, 1, k - 1)>> \o Split(SubSeq(s, k + 1, Len(s)), sep)

RECURSIVE Strftime(_, _)
\* date.strftime(fmt) for the directives the URL patterns produce (%Y %m %d
\* and %%); any other character after '%', and a lone trailing '%', are
\* copied as the C library copies an unknown conversion.
Strftime(fmt, date) ==
    IF Len(fmt) = 0 THEN <<>>
    ELSE IF fmt[1] # "%" THEN <<fmt[1]>> \o Strftime(Tail(fmt), date)
    ELSE IF Len(fmt) = 1 THEN <<"%">>
    ELSE LET rest == SubSeq(fmt, 3, Len(fmt)) IN
         CASE fmt[2] = "Y" -> Pad(date.year, 4) \o Strftime(rest, date)
           [] fmt[2] = "m" -> Pad(date.month, 2) \o Strftime(rest, date)
           [] fmt[2] = "d" -> Pad(date.day, 2) \o Strftime(rest, date)
           [] fmt[2] = "%" -> <<"%">> \o Strftime(rest, date)
           [] OTHER -> <<"%", fmt[2]>> \o Strftime(rest, date)

----------------------------------------------------------------------------
(* URL resolution *)

PhYear   == <<"<", "y", "e", "a", "r", ">">>
PhMonth  == <<"<", "m", "o", "n", "t", "h", ">">>
PhDay    == <<"<", "d", "a", "y", ">">>
PhIMonth == <<"<", "i", "_", "m", "o", "n", "t", "h", ">">>
PhIDay   == <<"<", "i", "_", "d", "a", "y", ">">>
PhTitle  == <<"<", "t", "i", "t", "l", "e", ">">>

DefaultPostsUrl ==
    PhYear \o <<"/">> \o PhMonth \o <<"/">> \o PhDay \o <<"/">> \o PhTitle \o <<"/">>

\* the subs dict of _get_post_url, as a list of (match, replace) pairs
Subs(date, slug) == <<
    <<PhYear, <<"%", "Y">> >>,
    <<PhMonth, <<"%", "m">> >>,
    <<PhDay, <<"%", "d">> >>,
    <<PhIMonth, Str(date.month)>>,
    <<PhIDay, Str(date.day)>>,
    <<PhTitle, slug>> >>

RECURSIVE ApplySubs(_, _, _)
\* the loop over subs.iteritems(): order lists the dict's iteration order
ApplySubs(link, subs, order) ==
    IF Len(order) = 0 THEN link
    ELSE ApplySubs(Replace(link, subs[order[1]][1], subs[order[1]][2]),
                   subs, Tail(order))

_get_post_url(pattern, date, slug, order) ==
    LET link == Replace(pattern, <<"%">>, <<"%", "%">>)
    IN Strftime(ApplySubs(link, Subs(date, slug), order), date)

_get_tag_url(pattern, name) ==
    LET end == IF EndsWith(pattern, "/") THEN <<"/">>
               ELSE <<".", "h", "t", "m", "l">>
    IN pattern \o <<"/">> \o name \o end

\* normpath: joins the parts and drops the empty ones
normpath(parts) == SelectSeq(parts, LAMBDA p : p # <<>>)

_get_path(dest_path, url) ==
    LET parts == <<dest_path>> \o Split(url, "/")
    IN normpath(IF EndsWith(url, "/")
                THEN parts \o << <<"i", "n", "d", "e", "x", ".", "h", "t", "m", "l">> >>
                ELSE parts)

----------------------------------------------------------------------------
(* Ordering helpers *)

UpperLetters == <<"A", "B", "C", "D", "E", "F", "G", "H", "I", "J", "K", "L", "M",
                  "N", "O", "P", "Q", "R", "S", "T", "U", "V", "W", "X", "Y", "Z">>
LowerLetters == <<"a", "b", "c", "d", "e", "f", "g", "h", "i", "j", "k", "l", "m",
                  "n", "o", "p", "q", "r", "s", "t", "u", "v", "w", "x", "y", "z">>

IsUpper(c) == \E i \in 1..26 : UpperLetters[i] = c

\* code point of a letter
Ord(c) == IF IsUpper(c) THEN 64 + (CHOOSE i \in 1..26 : UpperLetters[i] = c)
          ELSE 96 + (CHOOSE i \in 1..26 : LowerLetters[i] = c)

\* unicode.lower
Lower(s) == [i \in 1..Len(s) |->
                IF IsUpper(s[i])
                THEN LowerLetters[CHOOSE k \in 1..26 : UpperLetters[k] = s[i]]
                ELSE s[i]]

\* a < b for unicode strings: code point by code point, a proper prefix first
StrLess(a, b) ==
    \E k \in 1..(Len(b)) :
        /\ \A i \in 1..(k - 1) : i <= Len(a) /\ a[i] = b[i]
        /\ Len(a) >= k - 1
        /\ (Len(a) = k - 1 \/ Ord(a[k]) < Ord(b[k]))

\* list.sort: the stable sort of s, where less[i][j] tells whether the key
\* of s[i] is to come strictly before the key of s[j]
StableSort(s, less) ==
    LET n == Len(s)
        Rank(i) == 1 + Cardinality({ j \in 1..n :
                       j # i /\ (less[j][i] \/ (~less[i][j] /\ j < i)) })
    IN [k \in 1..n |-> s[CHOOSE i \in 1..n : Rank(i) = k]]

\* key = unicode.lower, on a list of names
ByLowerName(names) ==
    [i \in 1..Len(names) |-> [j \in 1..Len(names) |->
        StrLess(Lower(names[i]), Lower(names[j]))]]

\* key = lambda x: x[field], reverse = True, on a list of numbers
ByNumberDescending(keys) ==
    [i \in 1..Len(keys) |-> [j \in 1..Len(keys) |-> keys[i] > keys[j]]]

\* calendar.timegm of midnight UTC of a calendar date: days since 1970-01-01
\* times the seconds of a day
timegm(date) ==
    LET y   == IF date.month <= 2 THEN date.year - 1 ELSE date.year
        era == y \div 400
        yoe == y - era * 400
        mp  == IF date.month > 2 THEN date.month - 3 ELSE date.month + 9
        doy == (153 * mp + 2) \div 5 + date.day - 1
        doe == yoe * 365 + yoe \div 4 - yoe \div 100 + doy
    IN (era * 146097 + doe - 719468) * 86400

----------------------------------------------------------------------------
(* The source tree a run reads *)

TagGo      == <<"g", "o">>
TagSystems == <<"S", "y", "s", "t", "e", "m", "s">>

PostDates == { [year |-> 2020, month |-> 1, day |-> 5],
               [year |-> 2021, month |-> 3, day |-> 2] }

\* frontmatter blocks explored: the required title and layout, optional tags
\* (as written, unsorted) and an optional key named like a derived field
Frontmatters == {
    [title |-> "T", layout |-> "post", tags |-> <<TagSystems>>],
    [title |-> "T", layout |-> "post", tags |-> <<TagSystems, TagGo>>],
    [title |-> "T", layout |-> "post", tags |-> <<TagGo>>, timestamp |-> 0] }

\* the post files a _posts directory may list
PostFiles == { [date |-> d, slug |-> <<"p">>, frontmatter |-> fm] :
                  d \in PostDates, fm \in Frontmatters }

\* the standalone templates of the source tree, as self.src lists them
SourceTemplates == << [name |-> "index.html",
                     path |-> <<"i", "n", "d", "e", "x", ".", "h", "t", "m", "l">>] >>

DestPath == <<"/", "o", "u", "t">>

\* the class-level config defaults of posts_url and tags_url
ConfigPostsUrl == <<"/">> \o DefaultPostsUrl
ConfigTagsUrl == <<"/">>

MaxPosts == 2
MaxRuns == 2

RECURSIVE SeqsUpTo(_, _)
\* the sequences over S of length at most n
SeqsUpTo(S, n) ==
    IF n = 0 THEN { <<>> }
    ELSE LET shorter == SeqsUpTo(S, n - 1)
         IN shorter \cup { Append(q, x) : q \in { r \in shorter : Len(r) = n - 1 }, x \in S }

None == [kind |-> "None"]

Exc(kind, message, context) == [kind |-> kind, message |-> message, context |-> context]

\* what a collaborator raised, and on which item of which loop
Fault(exc, stage, index) == [exc |-> exc, stage |-> stage, index |-> index]

NoFault == Fault(None, "none", 0)

----------------------------------------------------------------------------
(* Mynt._parse *)

\* the Tags container: a sequence of entries in insertion order. An entry is
\* a bare member list until _parse finalises it into the tag dict.
TagIndex(container, name) ==
    IF \E i \in 1..Len(container) : container[i].name = name
    THEN CHOOSE i \in 1..Len(container) : container[i].name = name
    ELSE 0

NewEntry(name) == [name |-> name, final |-> FALSE, count |-> 0, posts |-> <<>>, url |-> <<>>]

\* Tags.__setitem__: a new key goes last, a known key keeps its place
TagsSetItem(container, entry) ==
    IF TagIndex(container, entry.name) = 0 THEN Append(container, entry)
    ELSE [container EXCEPT ![TagIndex(container, entry.name)] = entry]

RECURSIVE TagsFill(_, _)
\* for tag in sorting: self.tags[tag['name']] = tag
TagsFill(container, sorting) ==
    IF Len(sorting) = 0 THEN container
    ELSE TagsFill(TagsSetItem(container, sorting[1]), Tail(sorting))

\* data.update(post.frontmatter); data['tags'].sort(key = unicode.lower)
PostData(f, r) ==
    LET data == [content |-> "html",
                 tags |-> <<>>,
                 timestamp |-> timegm(f.date),
                 url |-> _get_post_url(ConfigPostsUrl, f.date, f.slug, <<1, 2, 3, 4, 5, 6>>)]
        updated == f.frontmatter @@ data
        sorted == StableSort(updated.tags, ByLowerName(updated.tags))
    IN [fdate |-> f.date, slug |-> f.slug, run |-> r]
       @@ [updated EXCEPT !.tags = sorted]

\* the data dict of every post file, for every run that may parse it
PostDataOf == [f \in PostFiles, r \in 1..(MaxRuns + 1) |-> PostData(f, r)]

RECURSIVE AddToTags(_, _, _)
\* the loop over data['tags']: [tags, err]; appending to an entry that is a
\* finalised dict raises AttributeError
AddToTags(container, data, names) ==
    IF Len(names) = 0 THEN [tags |-> container, err |-> None]
    ELSE LET i == TagIndex(container, names[1])
             c == IF i = 0 THEN TagsSetItem(container, NewEntry(names[1])) ELSE container
             k == IF i = 0 THEN Len(c) ELSE i
         IN IF c[k].final
            THEN [tags |-> c,
                  err |-> Exc("AttributeError", "'dict' object has no attribute 'append'", <<>>)]
            ELSE AddToTags([c EXCEPT ![k].posts = Append(@, data)], data, Tail(names))

RECURSIVE ParseLoop(_, _, _, _)
\* the loop over the _posts directory: [posts, tags, err]
ParseLoop(ps, container, files, r) ==
    IF Len(files) = 0 THEN [posts |-> ps, tags |-> container, err |-> None]
    ELSE LET data == PostDataOf[files[1], r]
             added == AddToTags(container, data, data.tags)
         IN IF added.err # None
            THEN [posts |-> Append(ps, data), tags |-> added.tags, err |-> added.err]
            ELSE ParseLoop(Append(ps, data), added.tags, Tail(files), r)

\* a sort that was left out: the list stays in collection order
SortPostsOmitted(ps) == ps

\* posts.sort(key = lambda post: post['timestamp'], reverse = True)
SortPosts(ps) ==
    StableSort(ps, ByNumberDescending([i \in 1..Len(ps) |-> ps[i].timestamp]))

\* the name sort without .lower(): upper-case names sort first
SortTagsCaseSensitive(sorting) ==
    LET n == Len(sorting)
        by_name == StableSort(sorting, [i \in 1..n |-> [j \in 1..n |->
                       StrLess(sorting[i].name, sorting[j].name)]])
    IN StableSort(by_name, ByNumberDescending([i \in 1..n |-> by_name[i].count]))

\* sorting.sort(key = name.lower()); sorting.sort(key = count, reverse = True)
SortTags(sorting) ==
    LET n == Len(sorting)
        by_name == StableSort(sorting, ByLowerName([i \in 1..n |-> sorting[i].name]))
    IN StableSort(by_name, ByNumberDescending([i \in 1..n |-> by_name[i].count]))

\* self._get_tag_url(name) of every tag name of the source tree
TagUrlOf == [name \in {TagGo, TagSystems} |-> _get_tag_url(ConfigTagsUrl, name)]

\* the finalisation of the container: [tags, err]. posts.sort on an entry
\* that is already a finalised dict raises AttributeError, after the
\* entries before it have been sorted in place.
FinaliseTags(container) ==
    LET n == Len(container)
        bad == { i \in 1..n : container[i].final }
        stop == IF bad = {} THEN n + 1 ELSE CHOOSE i \in bad : \A j \in bad : i <= j
        sorted == [i \in 1..n |->
                      IF i < stop
                      THEN [container[i] EXCEPT !.posts = SortPosts(@)]
                      ELSE container[i]]
        sorting == [i \in 1..n |->
                      [name |-> sorted[i].name,
                       final |-> TRUE,
                       count |-> Len(sorted[i].posts),
                       posts |-> sorted[i].posts,
                       url |-> TagUrlOf[sorted[i].name]]]
    IN IF bad # {}
       THEN [tags |-> sorted,
             err |-> Exc("AttributeError", "'dict' object has no attribute 'sort'", <<>>)]
       ELSE [tags |-> TagsFill(<<>>, SortTags(sorting)), err |-> None]

\* lines 207-232: what _parse does once its loop is over. loop is the
\* outcome of the loop, exc what was raised on the file after the parsed ones
ParseFinish(loop, exc) ==
    IF loop.err # None \/ exc # None
    THEN [posts |-> loop.posts, tags |-> loop.tags, archives |-> archives,
          err |-> IF loop.err # None THEN loop.err ELSE exc]
    ELSE IF Len(loop.posts) = 0
    THEN [posts |-> loop.posts, tags |-> loop.tags, archives |-> archives,
          err |-> None]
    ELSE [posts |-> SortPosts(loop.posts),
          tags |-> FinaliseTags(loop.tags).tags,
          archives |-> SortPosts(loop.posts),
          err |-> FinaliseTags(loop.tags).err]

\* _parse on a directory listing: files are the listed files that parse, in
\* listing order; exc is what Post() or the parser raises on the file after
\* them (None when the listing ends there)
ParseOutcome(files, exc, r) == ParseFinish(ParseLoop(posts, tags, files, r), exc)

ParseFaults == { Exc("MalformedFilenameError", "Invalid post filename.", <<>>),
                 Exc("MarkupError", "Markup conversion failed.", <<>>) }

----------------------------------------------------------------------------
(* Mynt._render *)

Page(path, layout, subject, r) ==
    [path |-> path, content |-> [layout |-> layout, subject |-> subject], run |-> r]

TagLayouts == { "None", "tag.html" }

\* self._get_path(url) of every URL the source tree gives rise to
PathOf == [url \in { PostDataOf[f, 1].url : f \in PostFiles }
                   \cup { TagUrlOf[n] : n \in DOMAIN TagUrlOf } |->
              _get_path(DestPath, url)]

\* the renders _render makes, in order: one per post, per standalone
\* template and (when tag_layout is set and tags exist) per tag
RenderJobs(templates, tag_layout, r) ==
    LET post_jobs == [i \in 1..Len(posts) |->
            [kind |-> "post", layout |-> posts[i].layout, title |-> posts[i].title,
             page |-> Page(PathOf[posts[i].url], posts[i].layout,
                           posts[i].url, r)]]
        template_jobs == [i \in 1..Len(templates) |->
            [kind |-> "template", layout |-> templates[i].name, title |-> "",
             page |-> Page(normpath(<<DestPath, templates[i].path>>), templates[i].name,
                           templates[i].path, r)]]
        tag_jobs == IF tag_layout # "None" /\ Len(tags) > 0
                    THEN [i \in 1..Len(tags) |->
                        [kind |-> "tag", layout |-> tag_layout, title |-> "",
                         page |-> Page(PathOf[tags[i].url], tag_layout,
                                       tags[i].name, r)]]
                    ELSE <<>>
    IN post_jobs \o template_jobs \o tag_jobs

\* a handler that re-raises what it caught
ReraiseBare(job, exc) == exc

\* except RendererException as e: raise RendererException(e.message, ...)
Reraise(job, exc) ==
    IF job.kind = "post" /\ exc.kind = "RendererException"
    THEN Exc("RendererException", exc.message, <<job.layout, " in post '", job.title, "'">>)
    ELSE exc

RenderFaults == { Exc("RendererException", "Template error.", <<>>),
                  Exc("MarkupError", "Markup conversion failed.", <<>>) }

----------------------------------------------------------------------------
(* Mynt.generate, and the runs of a process *)

\* Directory.rm: the tree is removed with all it holds
DirectoryRm(d) == [exists |-> FALSE, files |-> {}]

\* Directory.mk
DirectoryMk(d) == [d EXCEPT !.exists = TRUE]

\* Page.mk / File.cp: a write replaces the file at its path; r is the run
\* that writes
FileMk(files, path, content, r) ==
    { f \in files : f.path # path } \cup { [path |-> path, content |-> content, run |-> r] }

RECURSIVE WriteAll(_, _, _)
\* for page in self.pages: page.mk()
WriteAll(files, pgs, r) ==
    IF Len(pgs) = 0 THEN files
    ELSE WriteAll(FileMk(files, pgs[1].path, pgs[1].content, r), Tail(pgs), r)

StaleFile == [path |-> <<DestPath, <<"o", "l", "d">> >>,
              content |-> [layout |-> "None", subject |-> <<"o", "l", "d">>], run |-> 0]

\* the asset of the source's _assets directory, at its place under the
\* destination's assets_url
AssetPath == <<DestPath, <<"a", "s", "s", "e", "t", "s">>, <<"s", ".", "c", "s", "s">> >>
AssetContent == [layout |-> "None", subject |-> <<"s", ".", "c", "s", "s">>]

RunInit ==
    /\ posts = <<>>
    /\ tags = <<>>
    /\ pages = <<>>
    /\ archives = <<>>
    /\ opts = [force |-> FALSE]
    /\ pc = "idle"
    /\ run = 0
    /\ fault = NoFault
    /\ error = None

Init ==
    /\ posts_url = ConfigPostsUrl
    /\ tags_url = ConfigTagsUrl
    /\ post_calls = <<>>
    /\ tag_calls = <<>>
    /\ RunInit
    /\ dest \in { [exists |-> FALSE, files |-> {}], [exists |-> TRUE, files |-> {StaleFile}] }
    /\ dest0 = dest

ConstructFaults == { None,
                     Exc("OptionException", "Source and destination must differ.", <<>>),
                     Exc("ConfigException", "Config must be a mapping.", <<"src: config.yml">>) }

\* Mynt.__init__: a new instance; the class attributes are not rebound
Construct ==
    /\ pc \in {"idle", "done", "failed"}
    /\ run < MaxRuns
    /\ \E force \in BOOLEAN, exc \in ConstructFaults :
         /\ opts' = [force |-> force]
         /\ error' = exc
         /\ pc' = IF exc = None THEN "constructed" ELSE "failed"
    /\ run' = run + 1
    /\ fault' = NoFault
    /\ archives' = <<>>
    /\ dest0' = dest
    /\ UNCHANGED <<posts, tags, pages, dest, url_vars>>

\* the state _parse leaves: out is its outcome, exc what a collaborator
\* raised on the file at index
ParseReturns(out, exc, index) ==
    /\ posts' = out.posts
    /\ tags' = out.tags
    /\ archives' = out.archives
    /\ fault' = IF exc # None /\ out.err = exc THEN Fault(exc, "file", index) ELSE NoFault
    /\ error' = out.err
    /\ pc' = IF out.err = None THEN "parsed" ELSE "failed"

\* Mynt._parse, as _render calls it
Parse ==
    /\ pc = "constructed"
    /\ Len(posts) <= MaxPosts
    /\ \E files \in SeqsUpTo(PostFiles, MaxPosts - Len(posts)), exc \in ParseFaults \cup {None} :
         ParseReturns(ParseOutcome(files, exc, run), exc, Len(files) + 1)
    /\ UNCHANGED <<pages, opts, dest, run, dest0, url_vars>>

\* the state the render loops leave: done of the jobs render, and the one
\* after them (when there is one) raises exc in the renderer
RenderReturns(jobs) ==
    \E done \in 0..Len(jobs), exc \in RenderFaults :
        /\ pages' = pages \o [i \in 1..done |-> jobs[i].page]
        /\ fault' = IF done < Len(jobs)
                    THEN Fault(exc, jobs[done + 1].kind, done + 1)
                    ELSE NoFault
        /\ error' = IF done < Len(jobs) THEN Reraise(jobs[done + 1], exc) ELSE None
        /\ pc' = IF done < Len(jobs) THEN "failed" ELSE "rendered"

\* the rest of Mynt._render, after the call of _parse
Render ==
    /\ pc = "parsed"
    /\ \E tag_layout \in TagLayouts :
         RenderReturns(RenderJobs(SourceTemplates, tag_layout, run))
    /\ UNCHANGED <<posts, tags, archives, opts, dest, run, dest0, url_vars>>

\* the check with dest.rm() left out: the pages are written into the old tree
CheckDestNoRm ==
    /\ pc = "rendered"
    /\ IF dest.exists /\ ~opts.force
       THEN /\ error' = Exc("OptionException", "Destination already exists.",
                            <<"the -f option must be used to force generation by deleting the destination">>)
            /\ pc' = "failed"
       ELSE /\ error' = error
            /\ pc' = "cleared"
    /\ UNCHANGED <<posts, tags, pages, archives, opts, dest, run, fault, dest0, url_vars>>

\* the check with dest.rm() moved before the test of the force flag
CheckDestRmFirst ==
    /\ pc = "rendered"
    /\ dest' = IF dest.exists THEN DirectoryRm(dest) ELSE dest
    /\ IF dest.exists /\ ~opts.force
       THEN /\ error' = Exc("OptionException", "Destination already exists.",
                            <<"the -f option must be used to force generation by deleting the destination">>)
            /\ pc' = "failed"
       ELSE /\ error' = error
            /\ pc' = "cleared"
    /\ UNCHANGED <<posts, tags, pages, archives, opts, run, fault, dest0, url_vars>>

\* generate: the destination-exists check, and dest.rm() under --force
CheckDest ==
    /\ pc = "rendered"
    /\ IF dest.exists /\ ~opts.force
       THEN /\ error' = Exc("OptionException", "Destination already exists.",
                            <<"the -f option must be used to force generation by deleting the destination">>)
            /\ pc' = "failed"
            /\ dest' = dest
       ELSE /\ error' = error
            /\ pc' = "cleared"
            /\ dest' = IF dest.exists THEN DirectoryRm(dest) ELSE dest
    /\ UNCHANGED <<posts, tags, pages, archives, opts, run, fault, dest0, url_vars>>

\* generate: dest.mk()
MakeDest ==
    /\ pc = "cleared"
    /\ dest' = DirectoryMk(dest)
    /\ pc' = "made"
    /\ UNCHANGED <<posts, tags, pages, archives, opts, run, fault, error, dest0, url_vars>>

\* generate: the pages are written, then the assets of the source's _assets
\* directory are copied
WritePages ==
    /\ pc = "made"
    /\ dest' = [dest EXCEPT !.files =
                    FileMk(WriteAll(@, pages, run), AssetPath, AssetContent, run)]
    /\ pc' = "done"
    /\ UNCHANGED <<posts, tags, pages, archives, opts, run, fault, error, dest0, url_vars>>

Next == Construct \/ Parse \/ Render \/ CheckDest \/ MakeDest \/ WritePages

Spec == Init /\ [][Next]_vars


----------------------------------------------------------------------------
(* Properties of the pipeline, checked under Spec *)

\* the positions of a run at which _parse has completed without raising
ParseCompleted == pc \in {"parsed", "rendered", "cleared", "made", "done"}

\* C1: after _parse completes on a non-empty post list, a tag with a larger
\* count precedes one with a smaller count, and of two tags with equal counts
\* the one whose lower-cased name is smaller comes first.
TagCollectionOrdered ==
    (ParseCompleted /\ Len(posts) > 0) =>
        \A i, j \in 1..Len(tags) :
            /\ tags[i].final
            /\ tags[i].count > tags[j].count => i < j
            /\ (tags[i].count = tags[j].count
                /\ StrLess(Lower(tags[i].name), Lower(tags[j].name))) => i < j

\* a parsed run whose two tags tie on the count, so that the name decides:
\* "go" precedes "Systems" although "S" sorts before "g"
TagTieBrokenByName ==
    /\ pc = "parsed"
    /\ Len(tags) = 2
    /\ tags[1].count = tags[2].count
    /\ tags[1].name = TagGo
    /\ tags[2].name = TagSystems

\* C2: when the destination exists, a run without --force ends in an
\* OptionException with the destination as it found it; a run with --force
\* has removed the whole destination before creating it and before writing
\* the first page, and at the end every file of the destination was written
\* by this run.
DestinationReplaced ==
    /\ (pc = "rendered" /\ error = None) => dest = dest0
    /\ (pc = "failed" /\ error.message = "Destination already exists.") =>
            /\ error.kind = "OptionException"
            /\ dest0.exists /\ ~opts.force
            /\ dest = dest0
    /\ (pc \in {"cleared", "made", "done"} /\ dest0.exists) => opts.force
    /\ pc = "cleared" => (~dest.exists /\ dest.files = {})
    /\ pc = "made" => (dest.exists /\ dest.files = {})
    /\ pc = "done" => (dest.exists /\ \A f \in dest.files : f.run = run)

\* a forced run over a destination that held a file has finished
ForcedRunOverOldDestination ==
    /\ pc = "done"
    /\ opts.force
    /\ dest0.exists
    /\ dest0.files # {}
    /\ Len(pages) > 0

\* C3: the destination is as the run found it until parsing and rendering
\* have finished and the destination-exists check has passed, and a run that
\* failed has left it exactly as it was.
NoMutationBeforePreflight ==
    /\ pc \in {"idle", "constructed", "parsed", "rendered", "failed"} => dest = dest0
    /\ dest # dest0 => (pc \in {"cleared", "made", "done"} /\ (dest0.exists => opts.force))

\* a forced run over an existing destination failed while rendering, after
\* it had rendered a page
ForcedRunFailedInRender ==
    /\ pc = "failed"
    /\ opts.force
    /\ dest0.exists
    /\ fault.stage \in {"post", "template", "tag"}
    /\ fault.index > 1

\* C4: after _parse completes the post list and every tag's member list are
\* sorted by timestamp descending, and every tag's count is the length of
\* its member list.
PostListsSortedDescending ==
    ParseCompleted =>
        /\ \A i \in 1..(Len(posts) - 1) : posts[i].timestamp >= posts[i + 1].timestamp
        /\ \A t \in 1..Len(tags) :
            /\ \A i \in 1..(Len(tags[t].posts) - 1) :
                   tags[t].posts[i].timestamp >= tags[t].posts[i + 1].timestamp
            /\ tags[t].count = Len(tags[t].posts)

\* a parsed run with two posts of different timestamps that share a tag
TwoPostsShareTag ==
    /\ pc = "parsed"
    /\ Len(posts) = 2
    /\ posts[1].timestamp > posts[2].timestamp
    /\ \E t \in 1..Len(tags) :
           /\ tags[t].count = 2
           /\ tags[t].posts[1].timestamp > tags[t].posts[2].timestamp

\* C5: the posts, tags and pages a run uses hold only items that run made.
RunOwnsItsCollections ==
    ParseCompleted =>
        /\ \A i \in 1..Len(posts) : posts[i].run = run
        /\ \A t \in 1..Len(tags) : \A i \in 1..Len(tags[t].posts) : tags[t].posts[i].run = run
        /\ \A i \in 1..Len(pages) : pages[i].run = run

\* C9: the timestamp of every post is the UTC epoch seconds of the date of
\* its filename, whatever its frontmatter holds.
TimestampDerivedFromFilename ==
    \A i \in 1..Len(posts) : posts[i].timestamp = timegm(posts[i].fdate)

\* C10: when the renderer raises a render error on a post, _render stops
\* there: the pages of the posts before it, and no others, have been added,
\* and the error leaving _render carries the original message, the layout
\* and the post's title; an error of another kind leaves unmodified.
RenderErrorEnriched ==
    [][(pc = "parsed" /\ pc' = "failed" /\ fault'.stage = "post") =>
          LET k == fault'.index IN
          /\ k \in 1..Len(posts)
          /\ Len(pages') = Len(pages) + k - 1
          /\ SubSeq(pages', 1, Len(pages)) = pages
          /\ \A i \in 1..(k - 1) : pages'[Len(pages) + i].path = PathOf[posts[i].url]
          /\ IF fault'.exc.kind = "RendererException"
             THEN error' = Exc("RendererException", fault'.exc.message,
                               <<posts[k].layout, " in post '", posts[k].title, "'">>)
             ELSE error' = fault'.exc]_vars

\* the renderer raised a render error on the second post of a run
RenderErrorOnSecondPost ==
    /\ pc = "failed"
    /\ fault.stage = "post"
    /\ fault.index = 2
    /\ fault.exc.kind = "RendererException"
    /\ error.message = fault.exc.message

----------------------------------------------------------------------------
(* The URL resolver under test: a process with one configuration, calling  *)
(* _get_post_url and _get_tag_url on arbitrary arguments.                   *)

\* posts_url settings explored
PostsUrls == {
    ConfigPostsUrl,
    <<"/">> \o PhYear \o <<"/">> \o PhIMonth \o <<"/">> \o PhIDay \o <<"/">> \o PhTitle \o <<"/">>,
    <<"/", "a", "r", "c", "h", "i", "v", "e", "/", "1", "0", "0", "%", "/">> \o PhTitle \o <<"/">>,
    <<"/">> \o PhTitle \o <<"%", "Y", "/">> }

\* tags_url settings explored
TagsUrls == { <<"/">>, <<"/", "t", "a", "g", "s", "/">>, <<"/", "t", "a", "g", "s">> }

Dates == { [year |-> 2020, month |-> 1, day |-> 5],
           [year |-> 2021, month |-> 3, day |-> 2],
           [year |-> 2020, month |-> 11, day |-> 1] }

Slugs == { <<"a">>, <<"2", "0", "2", "0">>, <<"%", "Y">>, <<"a", "%">>, PhYear }

\* iteration orders of the subs dict explored (indices into Subs)
SubsOrders == { <<1, 2, 3, 4, 5, 6>>, <<6, 5, 4, 3, 2, 1>>, <<4, 1, 6, 2, 5, 3>> }

TagNames == { <<"g", "o">>, <<"G", "o">>, <<"S", "y", "s", "t", "e", "m", "s">>, <<"a", "r", "t">> }

MaxUrlCalls == 2

UrlInit ==
    /\ posts_url \in PostsUrls
    /\ tags_url \in TagsUrls
    /\ post_calls = <<>>
    /\ tag_calls = <<>>
    /\ RunInit
    /\ dest = [exists |-> FALSE, files |-> {}]
    /\ dest0 = dest

CallGetPostUrl ==
    /\ Len(post_calls) + Len(tag_calls) < MaxUrlCalls
    /\ \E date \in Dates, slug \in Slugs, order \in SubsOrders :
         post_calls' = Append(post_calls,
             [date |-> date, slug |-> slug, order |-> order,
              url |-> _get_post_url(posts_url, date, slug, order)])
    /\ UNCHANGED <<posts_url, tags_url, tag_calls, run_vars>>

CallGetTagUrl ==
    /\ Len(post_calls) + Len(tag_calls) < MaxUrlCalls
    /\ \E name \in TagNames :
         tag_calls' = Append(tag_calls,
             [name |-> name, url |-> _get_tag_url(tags_url, name)])
    /\ UNCHANGED <<posts_url, tags_url, post_calls, run_vars>>

UrlNext == CallGetPostUrl \/ CallGetTagUrl

SpecUrl == UrlInit /\ [][UrlNext]_vars

----------------------------------------------------------------------------
(* Properties of the URL resolver, checked under SpecUrl *)

RECURSIVE Contains(_, _)
Contains(s, part) ==
    /\ Len(s) >= Len(part)
    /\ (SubSeq(s, 1, Len(part)) = part \/ Contains(Tail(s), part))

\* a pattern that names the year, the month, the day and the title
NamesDateAndTitle(pattern) ==
    /\ Contains(pattern, PhYear)
    /\ Contains(pattern, PhMonth) \/ Contains(pattern, PhIMonth)
    /\ Contains(pattern, PhDay) \/ Contains(pattern, PhIDay)
    /\ Contains(pattern, PhTitle)

\* C6: under one posts_url pattern (one that names the date and the title),
\* the same date and slug give the same URL whatever the order of the
\* substitutions, and different (date, slug) pairs give different URLs.
PostUrlDeterministicInjective ==
    NamesDateAndTitle(posts_url) =>
        \A i, j \in 1..Len(post_calls) :
            LET a == post_calls[i]
                b == post_calls[j]
            IN IF a.date = b.date /\ a.slug = b.slug
               THEN a.url = b.url
               ELSE a.url # b.url

RECURSIVE JoinPercent(_)
\* the pieces joined by a literal '%'
JoinPercent(pieces) ==
    IF Len(pieces) = 1 THEN pieces[1]
    ELSE pieces[1] \o <<"%">> \o JoinPercent(Tail(pieces))

\* C7: every literal '%' of the pattern stands unchanged at its place in
\* the URL: the URL is the resolutions of the pieces of the pattern between
\* its '%' characters, joined by '%'.
PercentSurvives ==
    \A i \in 1..Len(post_calls) :
        LET c == post_calls[i]
            pieces == Split(posts_url, "%")
        IN c.url = JoinPercent([k \in 1..Len(pieces) |->
                       _get_post_url(pieces[k], c.date, c.slug, c.order)])

\* C8: under a tags_url ending in '/', the tag URL is the pattern, the name
\* and a closing '/', with one separator between the pattern's last segment
\* and the name; otherwise it is the name with the '.html' suffix.
TagUrlShape ==
    \A i \in 1..Len(tag_calls) :
        tag_calls[i].url =
            IF EndsWith(tags_url, "/")
            THEN tags_url \o tag_calls[i].name \o <<"/">>
            ELSE tags_url \o <<"/">> \o tag_calls[i].name \o <<".", "h", "t", "m", "l">>

====
